---- MODULE Spec2Model ----
(***************************************************************************)
(* Quota-constrained recommendation selector of the bank-offer             *)
(* personalisation pipeline (src/src/production_recommendation_engine.py,  *)
(* src/src/main.py).                                                       *)
(*                                                                         *)
(* Product names are the catalog's names in ASCII (catalog order of        *)
(* config.py:64-75):                                                       *)
(*   TravelCard     = "Karta dlya puteshestviy"                            *)
(*   PremiumCard    = "Premialnaya karta"                                  *)
(*   CreditCard     = "Kreditnaya karta"                                   *)
(*   FX             = "Obmen valyut"                                       *)
(*   CashLoan       = "Kredit nalichnymi"                                  *)
(*   DepositMulti   = "Depozit multivalyutnyy"                             *)
(*   DepositSavings = "Depozit sberegatelnyy"                              *)
(*   DepositAccum   = "Depozit nakopitelnyy"                               *)
(*   Investments    = "Investitsii"                                        *)
(*   Gold           = "Zolotye slitki"                                     *)
(* Feature names are the code's keys, the Cyrillic category of a spend_*   *)
(* key written in English (spend_Taxi = spend_<Taksi>, ...).               *)
(*                                                                         *)
(* Amounts are whole tenge.  The code computes in binary floating point;   *)
(* the model computes the same expressions over the rationals (fractions   *)
(* are compared exactly, never rounded).  The client vectors of the model  *)
(* are chosen so that every benefit is a whole number.                     *)
(***************************************************************************)
EXTENDS Integers, Sequences, FiniteSets, TLC

VARIABLES
    history,    \* engine -> its recommendation_history (a sequence of products)
    last,       \* the most recent call of apply_production_rules_and_select
    calls,      \* number of direct selector calls made so far
    pc,         \* main(): "idle" | "loop"
    df,         \* main(): the client rows of the running batch
    idx,        \* main(): number of rows of df already processed
    results,    \* main(): the result rows of the running batch
    committed,  \* main(): the products the selector returned in the running batch
    runs,       \* number of main() calls started so far
    run_input,  \* replay: the inputs fed in the first run
    out1,       \* replay: the products the first run returned
    out2,       \* replay: the products the replay returned
    phase,      \* replay: "first" | "replay"
    fv,         \* scoring: the client feature vector being scored
    bmap,       \* scoring: the map calculate_all_benefits_tz_compliant returned
    scored,     \* scoring: TRUE once the benefit model has returned for fv
    ultra_history,  \* ultra_engine.recommendation_history
    ultra_last,     \* the most recent call of calculate_all_benefits_ultra
    ultra_first     \* client -> the map its first call of calculate_all_benefits_ultra returned

vars == <<history, last, calls, pc, df, idx, results, committed, runs,
          run_input, out1, out2, phase, fv, bmap, scored,
          ultra_history, ultra_last, ultra_first>>

\* what the selector, main() and the replay read and write
selector_vars == <<history, last, calls, pc, df, idx, results, committed, runs,
                   run_input, out1, out2, phase>>

\* what only the scoring steps and the ultra engine read and write
score_vars == <<fv, bmap, scored>>
ultra_vars == <<ultra_history, ultra_last, ultra_first>>

(***************************************************************************)
(* The catalog and the quotas                                              *)
(***************************************************************************)
PRODUCTS ==
    <<"TravelCard", "PremiumCard", "CreditCard", "FX", "CashLoan",
      "DepositMulti", "DepositSavings", "DepositAccum", "Investments", "Gold">>

Catalog == {PRODUCTS[i] : i \in 1..Len(PRODUCTS)}

\* self.product_quotas, in percent; .get(product, dflt) for a product without one
product_quotas(p, dflt) ==
    CASE p = "CreditCard"     -> 20
      [] p = "DepositSavings" -> 15
      [] p = "PremiumCard"    -> 12
      [] p = "TravelCard"     -> 10
      [] p = "DepositAccum"   -> 10
      [] p = "FX"             -> 8
      [] p = "DepositMulti"   -> 8
      [] p = "Investments"    -> 6
      [] p = "Gold"           -> 6
      [] p = "CashLoan"       -> 5
      [] OTHER                -> dflt

(***************************************************************************)
(* Helpers: dict / Series access, list.count, exact fraction comparison    *)
(***************************************************************************)
\* A variant of the feature read in which an absent key does not read as 0.
Feat_strict(f, key) == IF key \in DOMAIN f THEN f[key] ELSE -1

\* client_features.get(key, 0): an absent key reads as 0
Feat(f, key) == IF key \in DOMAIN f THEN f[key] ELSE 0

\* benefits.get(product, 0) on an ordered dict <<[p |-> .., b |-> ..], ...>>
BenefitOf(benefits, p) ==
    IF \E i \in 1..Len(benefits) : benefits[i].p = p
    THEN benefits[CHOOSE i \in 1..Len(benefits) : benefits[i].p = p].b
    ELSE 0

\* list.count(product)
Count(h, p) == Cardinality({i \in 1..Len(h) : h[i] = p})

\* product in list
InHistory(h, p) == \E i \in 1..Len(h) : h[i] = p

\* a/b < c/d for a, c >= 0 and b, d > 0, by continued fractions (no overflow)
RECURSIVE PosFracLess(_, _, _, _)
PosFracLess(a, b, c, d) ==
    LET q1 == a \div b
        q2 == c \div d
        r1 == a % b
        r2 == c % d
    IN  IF q1 # q2 THEN q1 < q2
        ELSE IF r2 = 0 THEN FALSE
        ELSE IF r1 = 0 THEN TRUE
        ELSE PosFracLess(d, r2, b, r1)

\* a/b < c/d for any integers a, c and b, d > 0
FracLess(a, b, c, d) ==
    IF a < 0
    THEN IF c >= 0 THEN TRUE ELSE PosFracLess(-c, d, -a, b)
    ELSE IF c < 0 THEN FALSE ELSE PosFracLess(a, b, c, d)

Max(a, b) == IF a >= b THEN a ELSE b
Min(a, b) == IF a <= b THEN a ELSE b

(***************************************************************************)
(* ProductionRecommendationEngine._check_mandatory_rules                   *)
(* (production_recommendation_engine.py:415-457).  The two quota checks    *)
(* read the module-level production_engine's history (glob), whatever      *)
(* engine the method is called on.                                         *)
(***************************************************************************)
\* lines 427-441: at least two of the four loan-need indicators
LoanNeed(f) ==
    LET balance       == Feat(f, "avg_monthly_balance_KZT")
        transfer_out  == Feat(f, "transfer_transfer_out")
        transfer_in   == Feat(f, "transfer_transfer_in")
        loan_payments == Feat(f, "transfer_loan_payment_out")
        n1 == IF transfer_out - transfer_in > 200000 THEN 1 ELSE 0
        n2 == IF loan_payments > 50000 THEN 1 ELSE 0
        n3 == IF balance < 100000 THEN 1 ELSE 0
        n4 == IF 10 * transfer_out > 13 * transfer_in THEN 1 ELSE 0
    IN  n1 + n2 + n3 + n4 >= 2

\* lines 442-447: the cash-loan quota gate, on production_engine's history
CashLoanQuotaOpen(glob) ==
    LET total_processed == Len(glob)
        cash_loan_count == Count(glob, "CashLoan")
    IN  \/ total_processed = 0
        \/ 100 * cash_loan_count < 6 * total_processed
        \/ (total_processed > 50 /\ cash_loan_count = 0)

\* lines 452-454: the investments quota gate, on production_engine's history
InvestQuotaOpen(glob) ==
    LET total_processed == Len(glob)
        invest_count    == Count(glob, "Investments")
    IN  total_processed = 0 \/ 100 * invest_count < 6 * total_processed

\* lines 421-423: the currency-exchange rule (no quota gate)
FxRule(f, benefits) ==
    /\ Feat(f, "transfer_fx_buy") + Feat(f, "transfer_fx_sell") > 50000
    /\ BenefitOf(benefits, "FX") > 1000

check_mandatory_rules(f, benefits, glob) ==
    LET balance      == Feat(f, "avg_monthly_balance_KZT")
        transfer_out == Feat(f, "transfer_transfer_out")
        transfer_in  == Feat(f, "transfer_transfer_in")
    IN  IF FxRule(f, benefits) THEN "FX"
        ELSE IF LoanNeed(f) /\ CashLoanQuotaOpen(glob) THEN "CashLoan"
        ELSE IF /\ balance > 5000000
                /\ 2 * transfer_in > 3 * transfer_out
                /\ InvestQuotaOpen(glob)
             THEN "Investments"
        ELSE "None"

(***************************************************************************)
(* ProductionRecommendationEngine.apply_production_rules_and_select        *)
(* (production_recommendation_engine.py:243-413)                           *)
(***************************************************************************)
\* list.sort(key=benefit, reverse=True): stable, equal benefits keep their order
RECURSIVE SortDesc(_)
SortDesc(s) ==
    IF Len(s) <= 1 THEN s
    ELSE LET head == SortDesc(SubSeq(s, 1, Len(s) - 1))
             x    == s[Len(s)]
             k    == Cardinality({i \in 1..Len(head) : head[i].b >= x.b})
         IN  SubSeq(head, 1, k) \o <<x>> \o SubSeq(head, k + 1, Len(head))

\* A variant of the candidate list that keeps every product of the map.
viable_products_unfiltered(benefits) == SortDesc(benefits)

\* lines 279-284: the candidates, best benefit first
viable_products(benefits) ==
    LET above == SelectSeq(benefits, LAMBDA e : e.b > 100)
    IN  IF Len(above) > 0 THEN SortDesc(above) ELSE SortDesc(benefits)

\* b2 >= 0.97 * b1
NearTie(b1, b2) == 100 * b2 >= 97 * b1

\* A variant of the tie check that starts after 25 recorded decisions.
TieCheck_late(viable, h) ==
    IF Len(viable) >= 2 /\ Len(h) >= 25
    THEN IF /\ NearTie(viable[1].b, viable[2].b)
            /\ 2 * Count(h, viable[1].p) > Len(h)
         THEN viable[2].p
         ELSE "None"
    ELSE "None"

\* lines 288-303: the product the tie check returns, or "None"
TieCheck(viable, h) ==
    IF Len(viable) >= 2 /\ Len(h) >= 20
    THEN LET p1 == viable[1].p
             b1 == viable[1].b
             p2 == viable[2].p
             b2 == viable[2].b
             t  == Len(h)
             c1 == Count(h, p1)
             c2 == Count(h, p2)
             q1 == product_quotas(p1, 10)
             q2 == product_quotas(p2, 10)
         IN  IF 2 * c1 > t /\ NearTie(b1, b2) THEN p2
             ELSE IF /\ NearTie(b1, b2)
                     /\ 1000 * c1 > 12 * q1 * t
                     /\ 1000 * c2 < 11 * q2 * t
                  THEN p2
             ELSE "None"
    ELSE "None"

missing_products ==
    {"PremiumCard", "TravelCard", "CashLoan", "Gold", "Investments",
     "DepositAccum", "DepositMulti"}

\* A variant of the boost with 0.30 and 0.15 for 0.08 and 0.04.
diversity_boost_strong(p, h, f) ==
    LET base == IF p \in missing_products /\ Len(h) >= 10
                THEN IF ~InHistory(h, p) THEN 30
                     ELSE IF Count(h, p) <= 2 THEN 15 ELSE 0
                ELSE 0
        travel_total == Feat(f, "spend_Travel") + Feat(f, "spend_Hotels")
                        + Feat(f, "spend_Taxi")
    IN  IF p = "TravelCard" /\ travel_total > 500000 THEN base + 5 ELSE base

\* A variant of the boost that starts after 5 recorded decisions.
diversity_boost_early(p, h, f) ==
    LET base == IF p \in missing_products /\ Len(h) >= 5
                THEN IF ~InHistory(h, p) THEN 8
                     ELSE IF Count(h, p) <= 2 THEN 4 ELSE 0
                ELSE 0
        travel_total == Feat(f, "spend_Travel") + Feat(f, "spend_Hotels")
                        + Feat(f, "spend_Taxi")
    IN  IF p = "TravelCard" /\ travel_total > 500000 THEN base + 5 ELSE base

\* lines 335-348: diversity_boost, in hundredths
diversity_boost(p, h, f) ==
    LET t == Len(h)
        base == IF p \in missing_products /\ t >= 10
                THEN IF ~InHistory(h, p) THEN 8
                     ELSE IF Count(h, p) <= 2 THEN 4 ELSE 0
                ELSE 0
        travel_total == Feat(f, "spend_Travel") + Feat(f, "spend_Hotels")
                        + Feat(f, "spend_Taxi")
    IN  IF p = "TravelCard" /\ travel_total > 500000 THEN base + 5 ELSE base

\* A variant of the tolerance test that already fires above the quota itself.
OverTolerance_atquota(c, t, q) == 100 * c > q * t

\* share > quota * 1.5 (line 323)
OverTolerance(c, t, q) == 200 * c > 3 * q * t

\* The part of the weighted score that does not depend on the benefit,
\*   - 0.15 * diversity_penalty + diversity_boost   (lines 317-351),
\* as the numerator of a fraction over ScoreAdjDen(h).
\* the quota term -0.15 * diversity_penalty of the weighted score (lines
\* 318-328, 350), in units of 1 / ScoreAdjDen(h)
QuotaTermNum(p, h) ==
    LET t == Len(h)
        c == Count(h, p)
        q == product_quotas(p, 10)
    IN  IF t >= 20
        THEN IF OverTolerance(c, t, q)
             THEN 0 - (1200 \div q) * (100 * c - q * t)
             ELSE (120 \div q) * Max(0, q * t - 100 * c)
        ELSE 0

ScoreAdjNum(p, h, f) ==
    LET t == Len(h)
    IN  IF t >= 20
        THEN QuotaTermNum(p, h) + 160 * t * diversity_boost(p, h, f)
        ELSE diversity_boost(p, h, f)

ScoreAdjDen(h) == IF Len(h) >= 20 THEN 16000 * Len(h) ELSE 100

\* weighted_scores[x] > weighted_scores[y], with
\* weighted_scores[p] = 0.90 * benefit / max_benefit + adjustment (line 351)
ScoreGreater(x, y, viable, h, f) ==
    LET max_benefit == viable[1].b
        ax == ScoreAdjNum(x.p, h, f)
        ay == ScoreAdjNum(y.p, h, f)
    IN  IF max_benefit > 0
        THEN FracLess(ay - ax, ScoreAdjDen(h), 9 * (x.b - y.b), 10 * max_benefit)
        ELSE ay < ax

\* A variant of the choice of the best score that answers only when one
\* candidate's score is strictly above every other's.
BestWeighted_unique(viable, h, f) ==
    IF \E i \in 1..Len(viable) : \A j \in 1..Len(viable) :
           j # i => ScoreGreater(viable[i], viable[j], viable, h, f)
    THEN viable[CHOOSE i \in 1..Len(viable) : \A j \in 1..Len(viable) :
                    j # i => ScoreGreater(viable[i], viable[j], viable, h, f)].p
    ELSE "None"

\* A variant of the choice of the best score that takes, among equal best
\* scores, the last candidate instead of the first.
BestWeighted_last(viable, h, f) ==
    LET i == CHOOSE i \in 1..Len(viable) :
                 /\ \A j \in 1..Len(viable) :
                        ~ScoreGreater(viable[j], viable[i], viable, h, f)
                 /\ \A j \in (i + 1)..Len(viable) :
                        ScoreGreater(viable[i], viable[j], viable, h, f)
    IN  viable[i].p

\* max(weighted_scores, key=weighted_scores.get): the first key, in the
\* order of viable_products, whose score no other key exceeds (lines 354-355)
BestWeighted(viable, h, f) ==
    LET i == CHOOSE i \in 1..Len(viable) :
                 /\ \A j \in 1..Len(viable) :
                        ~ScoreGreater(viable[j], viable[i], viable, h, f)
                 /\ \A j \in 1..(i - 1) :
                        ScoreGreater(viable[i], viable[j], viable, h, f)
    IN  viable[i].p

Returned(p, path, h) ==
    [status |-> "ok", product |-> p, path |-> path, history |-> Append(h, p)]

Raised(error, h) ==
    [status |-> "error", product |-> "None", path |-> error, history |-> h]

\* A variant of the rare-product rule that names the gold product by a
\* label the catalog does not hold.
RareProductRule_offcatalog(benefits, f, h) ==
    LET balance == Feat(f, "avg_monthly_balance_KZT")
    IN  IF /\ Len(h) >= 20
           /\ ~InHistory(h, "Gold")
           /\ balance > 3000000
           /\ BenefitOf(benefits, "Gold") > 50000
        THEN "GoldBars"
        ELSE "None"

\* lines 257-269: the forced rules for the two rare products, or "None"
RareProductRule(benefits, f, h) ==
    LET balance == Feat(f, "avg_monthly_balance_KZT")
    IN  IF Len(h) >= 20
        THEN IF /\ ~InHistory(h, "Gold")
                /\ balance > 3000000
                /\ BenefitOf(benefits, "Gold") > 50000
             THEN "Gold"
             ELSE IF /\ ~InHistory(h, "Investments")
                     /\ balance > 2500000
                     /\ BenefitOf(benefits, "Investments") > 60000
                  THEN "Investments"
             ELSE "None"
        ELSE "None"

\* lines 359-387: the statements after the weighted-score return.  They
\* divide by total_clients and take min() of a list, both of which raise
\* when there is nothing to divide by or to take the minimum of.
QuotaFallback(viable, h) ==
    LET t == Len(h)
        n == Len(viable)
        UnderQuota(i) ==
            /\ 10 * viable[i].b >= 8 * viable[n].b
            /\ 100 * Count(h, viable[i].p) < product_quotas(viable[i].p, 20) * t
        MinCount == CHOOSE c \in {Count(h, viable[i].p) : i \in 1..n} :
                        \A i \in 1..n : c <= Count(h, viable[i].p)
        NearMin(i) == 100 * Count(h, viable[i].p) <= 100 * MinCount + 5 * t
    IN  IF n > 0 /\ t = 0 THEN Raised("ZeroDivisionError", h)
        ELSE IF \E i \in 1..n : UnderQuota(i)
        THEN Returned(viable[CHOOSE i \in 1..n :
                         UnderQuota(i) /\ \A j \in 1..(i - 1) : ~UnderQuota(j)].p,
                      "fallback_quota", h)
        ELSE IF n = 0 THEN Raised("ValueError", h)
        ELSE IF \E i \in 1..n : NearMin(i)
        THEN Returned(viable[CHOOSE i \in 1..n :
                         NearMin(i) /\ \A j \in 1..(i - 1) : ~NearMin(j)].p,
                      "fallback_minshare", h)
        ELSE Returned(viable[1].p, "fallback_top", h)

\* A variant of the scored selection without the return at line 357: control
\* falls through to the quota statements behind it.
ScoredSelection_fallthrough(viable, h, f) == QuotaFallback(viable, h)

\* A variant of the scored selection that scores a candidate only when the
\* leading benefit is positive: with no score, control reaches the quota
\* statements.
ScoredSelection_positiveonly(viable, h, f) ==
    IF Len(viable) > 0 /\ viable[1].b > 0
    THEN Returned(BestWeighted(viable, h, f), "weighted", h)
    ELSE QuotaFallback(viable, h)

\* lines 305-357: weighted_scores has one entry per candidate
ScoredSelection(viable, h, f) ==
    IF Len(viable) > 0
    THEN Returned(BestWeighted(viable, h, f), "weighted", h)
    ELSE QuotaFallback(viable, h)

\* The whole method: h is self.recommendation_history, glob is
\* production_engine.recommendation_history.  The result holds the returned
\* product (or the error raised), the return statement taken and the
\* history of self after the call.
apply_production_rules_and_select(benefits, f, h, glob) ==
    IF Len(benefits) = 0
    THEN [status |-> "ok", product |-> "DepositSavings", path |-> "empty",
          history |-> h]
    ELSE LET rare      == RareProductRule(benefits, f, h)
             mandatory == check_mandatory_rules(f, benefits, glob)
             viable    == viable_products(benefits)
             tie       == TieCheck(viable, h)
         IN  IF rare # "None" THEN Returned(rare, "rare", h)
             ELSE IF mandatory # "None" /\ BenefitOf(benefits, mandatory) > 1000
                  THEN Returned(mandatory, "mandatory", h)
             ELSE IF tie # "None" THEN Returned(tie, "tie", h)
             ELSE ScoredSelection(viable, h, f)

(***************************************************************************)
(* ProductionRecommendationEngine.calculate_all_benefits_tz_compliant      *)
(* (production_recommendation_engine.py:34-241).  A rate r = n / d in      *)
(* lowest terms is applied as (x * n) \div d, the terms of a sum brought   *)
(* to a common denominator first; the client vectors of the model make     *)
(* every benefit a whole number, so no quotient is rounded.                *)
(***************************************************************************)
\* lines 63-64
total_spending(f) ==
    Feat(f, "spend_Taxi") + Feat(f, "spend_Hotels") + Feat(f, "spend_Restaurants")
    + Feat(f, "spend_Food") + Feat(f, "spend_Gas")
    + Feat(f, "spend_EatHome") + Feat(f, "spend_WatchHome") + Feat(f, "spend_PlayHome")
    + Feat(f, "spend_Cinema") + Feat(f, "spend_Entertainment")

\* spending_volatility > n / 10 (line 65: 1.0 when the balance is not positive)
VolatilityAbove(f, n) ==
    LET balance == Feat(f, "avg_monthly_balance_KZT")
    IN  IF balance > 0 THEN 10 * total_spending(f) > n * Max(balance, 1) ELSE 10 > n

\* spending_volatility < n / 10
VolatilityBelow(f, n) ==
    LET balance == Feat(f, "avg_monthly_balance_KZT")
    IN  IF balance > 0 THEN 10 * total_spending(f) < n * Max(balance, 1) ELSE 10 < n

\* lines 73-84
TravelBenefit(f) ==
    LET taxi_spend   == Feat(f, "spend_Taxi")
        travel_spend == Feat(f, "spend_Travel") + Feat(f, "spend_Hotels")
    IN  IF travel_spend > 0 \/ taxi_spend > 0
        THEN Max(((travel_spend + taxi_spend) * 16) \div 10000, 600)
        ELSE 10

\* lines 86-114
PremiumBenefit(f) ==
    LET balance   == Feat(f, "avg_monthly_balance_KZT")
        tier_rate == IF balance >= 6000000 THEN 4
                     ELSE IF balance >= 1000000 THEN 3 ELSE 2
        premium_categories ==
            Feat(f, "spend_Jewelry") + Feat(f, "spend_Cosmetics")
            + Feat(f, "spend_Restaurants")
        total_cashback ==
            (total_spending(f) * tier_rate + premium_categories * 4) \div 30000
        limited_cashback == Min(total_cashback, 100000)
        saved_fees == IF balance > 500000 THEN Min(balance \div 1000, 3000) ELSE 0
    IN  Max(limited_cashback + saved_fees, 100)

\* sum(sorted(values, reverse=True)[:3]) of a sequence of at least 3 numbers
Top3Sum(v) ==
    LET sorted == SortDesc([i \in 1..Len(v) |-> [p |-> i, b |-> v[i]]])
    IN  sorted[1].b + sorted[2].b + sorted[3].b

\* lines 116-149
CreditCardBenefit(f) ==
    LET balance == Feat(f, "avg_monthly_balance_KZT")
        top_3_spending ==
            Top3Sum(<<Feat(f, "spend_Restaurants"), Feat(f, "spend_Food"),
                      Feat(f, "spend_Gas"), Feat(f, "spend_Taxi"),
                      Feat(f, "spend_Cinema") + Feat(f, "spend_Entertainment"),
                      Feat(f, "spend_Cosmetics"), Feat(f, "spend_Clothes")>>)
        online_services ==
            Feat(f, "spend_PlayHome") + Feat(f, "spend_EatHome") + Feat(f, "spend_Cinema")
        credit_limit_benefit == Min(balance \div 10, 20000)
        \* min(top3 / 15000, 2000), in 1/15000
        installment_benefit ==
            IF Feat(f, "transfer_installment_payment_out") > 0
            THEN Min(top_3_spending, 30000000) ELSE 0
    IN  Max(((top_3_spending + online_services) * 5 + installment_benefit)
                \div 15000
            + credit_limit_benefit, 200)

\* lines 151-158
FxBenefit(f) ==
    LET total_fx == Feat(f, "transfer_fx_buy") + Feat(f, "transfer_fx_sell")
    IN  IF total_fx > 1000
        THEN (total_fx * 5 + Min(total_fx, 50000000)) \div 100000
        ELSE 50

\* lines 160-173
CashLoanBenefit(f) ==
    LET balance       == Feat(f, "avg_monthly_balance_KZT")
        loan_payments == Feat(f, "transfer_loan_payment_out")
        cash_deficit  == Max(0, Feat(f, "transfer_transfer_out")
                                - Feat(f, "transfer_transfer_in"))
        potential_loan == Min(cash_deficit * 2, 1000000)
    IN  IF cash_deficit > 50000 /\ loan_payments > 10000 /\ balance < 500000
        THEN (potential_loan * 12 + Min(potential_loan * 2, 500000)) \div 100
             + 2000
        ELSE 50

\* lines 175-183
DepositMultiBenefit(f) ==
    LET balance  == Feat(f, "avg_monthly_balance_KZT")
        total_fx == Feat(f, "transfer_fx_buy") + Feat(f, "transfer_fx_sell")
    IN  IF balance > 100000 /\ (total_fx > 1000 \/ VolatilityAbove(f, 1))
        THEN (balance * 29 + Min(total_fx, 400000) + Min(balance, 200000))
             \div 200
        ELSE (balance * 29) \div 400

\* lines 185-193
DepositSavingsBenefit(f) ==
    LET balance == Feat(f, "avg_monthly_balance_KZT")
        stability_bonus ==
            IF Feat(f, "transfer_transfer_in") >= Feat(f, "transfer_transfer_out")
            THEN 2000 ELSE 0
    IN  IF balance > 50000 /\ VolatilityBelow(f, 3)
        THEN (balance * 33) \div 200 + stability_bonus + 1000
        ELSE (balance * 231) \div 2000

\* lines 195-203
DepositAccumBenefit(f) ==
    LET balance == Feat(f, "avg_monthly_balance_KZT")
        cash_surplus == Max(0, Feat(f, "transfer_transfer_in")
                               - Feat(f, "transfer_transfer_out"))
    IN  IF balance > 50000 /\ cash_surplus > 5000
        THEN (balance * 31 + Min(cash_surplus * 2, 400000)) \div 200
        ELSE (balance * 93) \div 1000

\* A variant of the investments benefit without the cap of 500000 on the
\* invested amount.
InvestmentsBenefit_uncapped(f) ==
    LET balance == Feat(f, "avg_monthly_balance_KZT")
    IN  IF balance >= 6
        THEN (balance * 8 + Min(balance * 2, 1500000)) \div 500
             + (IF balance < 100000 THEN 500 ELSE 0)
        ELSE 100

\* lines 205-217
InvestmentsBenefit(f) ==
    LET balance == Feat(f, "avg_monthly_balance_KZT")
        \* investment_amount = min(balance * 0.2, 500000), in fifths
        investment_amount == Min(balance, 2500000)
    IN  IF balance >= 6
        THEN (investment_amount * 8 + Min(investment_amount * 2, 1500000))
             \div 500
             + (IF balance < 100000 THEN 500 ELSE 0)
        ELSE 100

\* lines 219-235
GoldBenefit(f) ==
    LET balance == Feat(f, "avg_monthly_balance_KZT")
        \* gold_allocation = min(balance * 0.15, 500000), in hundredths
        gold_allocation == Min(balance * 15, 50000000)
        \* minimal_gold = min(balance * 0.1, 50000), in tenths
        minimal_gold == Min(balance, 500000)
    IN  IF balance > 1000000
        THEN (gold_allocation * 4 + Min(balance * 50, 30000000)) \div 10000
             + (IF balance > 3000000 THEN 1000 ELSE 500)
        ELSE Max((minimal_gold * 3) \div 1000, 200)

\* the dict the method returns, in the order its keys are inserted
calculate_all_benefits_tz_compliant(f) ==
    <<[p |-> "TravelCard",     b |-> TravelBenefit(f)],
      [p |-> "PremiumCard",    b |-> PremiumBenefit(f)],
      [p |-> "CreditCard",     b |-> CreditCardBenefit(f)],
      [p |-> "FX",             b |-> FxBenefit(f)],
      [p |-> "CashLoan",       b |-> CashLoanBenefit(f)],
      [p |-> "DepositMulti",   b |-> DepositMultiBenefit(f)],
      [p |-> "DepositSavings", b |-> DepositSavingsBenefit(f)],
      [p |-> "DepositAccum",   b |-> DepositAccumBenefit(f)],
      [p |-> "Investments",    b |-> InvestmentsBenefit(f)],
      [p |-> "Gold",           b |-> GoldBenefit(f)]>>

(***************************************************************************)
(* Module-level wrappers (production_recommendation_engine.py:460-472):    *)
(* both use the one production_engine constructed when the module is       *)
(* imported.                                                               *)
(***************************************************************************)
calculate_all_benefits(f) == calculate_all_benefits_tz_compliant(f)

apply_rules_and_select_best(benefits, f, hist) ==
    apply_production_rules_and_select(benefits, f, hist["production_engine"],
                                      hist["production_engine"])

(***************************************************************************)
(* Inputs: client feature vectors, benefit maps, batches                   *)
(***************************************************************************)
\* a grocery spender without savings: the credit card is the best product
Foodie == [avg_monthly_balance_KZT |-> 0, spend_Food |-> 3000000]

\* heavy currency exchange: triggers the exchange rule
FxTrader == [avg_monthly_balance_KZT |-> 200000,
             transfer_fx_buy |-> 10000000, transfer_fx_sell |-> 10000000,
             transfer_transfer_in |-> 100000, transfer_transfer_out |-> 100000]

\* two loan-need indicators, and deposits that pay more than the loan
Borrower == [avg_monthly_balance_KZT |-> 400000,
             transfer_transfer_out |-> 270000, transfer_transfer_in |-> 200000,
             transfer_loan_payment_out |-> 60000]

\* ultra-premium client: triggers the investments rule
Wealthy == [avg_monthly_balance_KZT |-> 6000000,
            transfer_transfer_in |-> 900000, transfer_transfer_out |-> 0,
            transfer_fx_buy |-> 100000]

\* no activity at all: every feature is absent
ZeroClient == [k \in {} |-> 0]

\* a frequent traveller
Traveller == [avg_monthly_balance_KZT |-> 0, spend_Travel |-> 600000,
              spend_Taxi |-> 30000]

ClientNames == {"Foodie", "FxTrader", "Borrower", "Wealthy", "ZeroClient", "Traveller"}

\* the 'name' column of a client's row: a string, or the NaN that a client
\* without a name in clients.csv gets (data_processing.py:196).  The client
\* "Anonymous" has the features of Foodie and no name.
client_name(c) == IF c = "Anonymous" THEN "NaN" ELSE c

Row(c) ==
    CASE c = "Foodie"     -> Foodie
      [] c = "FxTrader"   -> FxTrader
      [] c = "Borrower"   -> Borrower
      [] c = "Wealthy"    -> Wealthy
      [] c = "ZeroClient" -> ZeroClient
      [] c = "Traveller"  -> Traveller
      [] c = "Anonymous"  -> Foodie

\* benefit maps a caller of the selector may pass besides the computed one
NearTieMap ==
    <<[p |-> "PremiumCard", b |-> 100], [p |-> "CreditCard", b |-> 102],
      [p |-> "FX", b |-> 101]>>

DegenerateMap ==
    <<[p |-> "CreditCard", b |-> 50], [p |-> "FX", b |-> 100],
      [p |-> "Gold", b |-> 0]>>

RareMap ==
    <<[p |-> "CreditCard", b |-> 70000], [p |-> "FX", b |-> 2000],
      [p |-> "Investments", b |-> 65000], [p |-> "Gold", b |-> 55000]>>

ZeroMap ==
    <<[p |-> "CreditCard", b |-> 0], [p |-> "TravelCard", b |-> 0]>>

DominatedMap ==
    [i \in 1..Len(PRODUCTS) |->
        [p |-> PRODUCTS[i], b |-> IF PRODUCTS[i] = "CreditCard" THEN 10000 ELSE 200]]

BenefitMaps(c) ==
    {<<>>, calculate_all_benefits(Row(c)), NearTieMap, DegenerateMap, RareMap,
     ZeroMap, DominatedMap}

Engines == {"production_engine", "engine"}

\* bounds of the model
MaxBatch == 21
MaxRuns == 2
MaxCalls == 1
MaxReplay == 2

Rep(c, n) == [i \in 1..n |-> c]

\* the batches main() is run on: empty, one client, MaxBatch equal clients,
\* or two blocks of clients
BatchShapes ==
    {<<0, 0>>, <<1, 0>>, <<MaxBatch, 0>>,
     <<MaxBatch \div 2, MaxBatch - MaxBatch \div 2>>}

DataFrames ==
    {Rep(c1, shape[1]) \o Rep(c2, shape[2]) :
        c1 \in ClientNames, c2 \in ClientNames, shape \in BatchShapes}

\* batches that hold a client without a name
AnonFrames ==
    {<<"Anonymous">>, <<"Anonymous", "ZeroClient">>,
     <<"Foodie", "Anonymous", "Foodie">>}

MainFrames == DataFrames \cup AnonFrames

(***************************************************************************)
(* The batch loop of main() (main.py:75-107), one client at a time         *)
(***************************************************************************)
\* generate_push_text (nlg_module.py:26-71): _prepare_template_context and
\* then _generate_fallback_text both evaluate  name and ' ' in name , which
\* raises TypeError when name is the float NaN; any other failure of the
\* template ends in the fallback text.
generate_push_text(c, product) ==
    IF client_name(c) = "NaN" THEN "TypeError" ELSE "text"

\* A variant of the loop's exception handler that leaves the loop.
LoopAfter_abort(ok) == IF ok THEN "loop" ELSE "idle"

\* main.py:105-107: the handler logs the error and continues with the next
\* client
LoopAfter(ok) == "loop"

NoCall == [status |-> "none"]

CallRecord(e, c, benefits, hist, r) ==
    [engine |-> e, c |-> c, b |-> benefits, pre |-> hist[e],
     gpre |-> hist["production_engine"],
     status |-> r.status, product |-> r.product, path |-> r.path]

\* one iteration of the loop body (main.py:79-107)
MainBody(c, hist) ==
    LET benefits == calculate_all_benefits(Row(c))
    IN  [benefits |-> benefits,
         r |-> apply_rules_and_select_best(benefits, Row(c), hist)]

\* the loop over df.iterrows(), run to the end: the histories and the
\* selector's last call after the batch
RECURSIVE MainLoop(_, _, _)
MainLoop(rows, hist, call) ==
    IF Len(rows) = 0 THEN [history |-> hist, last |-> call]
    ELSE LET body == MainBody(Head(rows), hist)
         IN  MainLoop(Tail(rows),
                      [hist EXCEPT !["production_engine"] = body.r.history],
                      CallRecord("production_engine", Head(rows), body.benefits,
                                 hist, body.r))

Init ==
    /\ history = [e \in Engines |-> <<>>]
    /\ last = NoCall
    /\ calls = 0
    /\ pc = "idle"
    /\ df = <<>>
    /\ idx = 0
    /\ results = <<>>
    /\ committed = <<>>
    /\ runs = 0
    /\ run_input = <<>>
    /\ out1 = <<>>
    /\ out2 = <<>>
    /\ phase = "first"
    /\ fv = ZeroClient
    /\ bmap = <<>>
    /\ scored = FALSE
    /\ ultra_history = <<>>
    /\ ultra_last = NoCall
    /\ ultra_first = [c \in ClientNames |-> <<>>]

\* main() is called (main.py:31-77).  Nothing in it constructs an engine or
\* clears production_engine.recommendation_history.
MainStart(rows) ==
    /\ pc = "idle"
    /\ runs < MaxRuns
    /\ runs' = runs + 1
    /\ df' = rows
    /\ idx' = 0
    /\ results' = <<>>
    /\ committed' = <<>>
    /\ pc' = IF Len(rows) = 0 THEN "idle" ELSE "loop"
    /\ UNCHANGED <<score_vars, ultra_vars>>
    /\ UNCHANGED <<history, last, calls, run_input, out1, out2, phase>>

\* one client of the batch (main.py:79-107): benefits, selection, text,
\* result row; an exception skips the rest of the body for this client
MainIter ==
    /\ pc = "loop"
    /\ idx < Len(df)
    /\ LET c    == df[idx + 1]
           body == MainBody(c, history)
       IN  /\ history' = [history EXCEPT !["production_engine"] = body.r.history]
           /\ last' = CallRecord("production_engine", c, body.benefits, history, body.r)
           /\ committed' = IF body.r.status = "ok"
                           THEN Append(committed, body.r.product)
                           ELSE committed
           /\ LET ok == /\ body.r.status = "ok"
                        /\ generate_push_text(c, body.r.product) = "text"
              IN  /\ results' = IF ok
                                THEN Append(results, [row |-> idx + 1,
                                                      product |-> body.r.product])
                                ELSE results
                  /\ pc' = LoopAfter(ok)
    /\ idx' = idx + 1
    /\ UNCHANGED <<score_vars, ultra_vars>>
    /\ UNCHANGED <<calls, df, runs, run_input, out1, out2, phase>>

\* the loop is over: results are saved and main() returns (main.py:109-167)
MainEnd ==
    /\ pc = "loop"
    /\ idx = Len(df)
    /\ pc' = "idle"
    /\ UNCHANGED <<score_vars, ultra_vars>>
    /\ UNCHANGED <<history, last, calls, df, idx, results, committed, runs,
                   run_input, out1, out2, phase>>

NextMain == (\E rows \in MainFrames : MainStart(rows)) \/ MainIter \/ MainEnd

SpecMain == Init /\ [][NextMain]_vars

(***************************************************************************)
(* One process: main() run once on a batch (main.py:294-296), and direct   *)
(* calls of the selector on the module-level engine or on an engine of     *)
(* the caller's own.                                                       *)
(***************************************************************************)
\* main() from its first statement to its return
RunMain(rows) ==
    /\ pc = "idle"
    /\ runs = 0
    /\ runs' = 1
    /\ history' = MainLoop(rows, history, last).history
    /\ last' = MainLoop(rows, history, last).last
    /\ df' = rows
    /\ idx' = Len(rows)
    /\ UNCHANGED <<score_vars, ultra_vars>>
    /\ UNCHANGED <<calls, pc, results, committed, run_input, out1, out2, phase>>

\* engine.apply_production_rules_and_select(benefits, Row(c))
Select(e, c, benefits) ==
    /\ pc = "idle"
    /\ calls < MaxCalls
    /\ calls' = calls + 1
    /\ LET r == apply_production_rules_and_select(benefits, Row(c), history[e],
                                                  history["production_engine"])
       IN  /\ history' = [history EXCEPT ![e] = r.history]
           /\ last' = CallRecord(e, c, benefits, history, r)
    /\ UNCHANGED <<score_vars, ultra_vars>>
    /\ UNCHANGED <<pc, df, idx, results, committed, runs, run_input, out1, out2, phase>>

Next ==
    \/ \E rows \in DataFrames : RunMain(rows)
    \/ \E e \in Engines, c \in ClientNames :
           \E benefits \in BenefitMaps(c) : Select(e, c, benefits)

Spec == Init /\ [][Next]_vars

(***************************************************************************)
(* Replay: a sequence of clients goes through the module-level wrappers    *)
(* (as main() feeds them), then the same sequence goes through a freshly   *)
(* constructed ProductionRecommendationEngine.                             *)
(***************************************************************************)
\* first run: calculate_all_benefits + apply_rules_and_select_best
FirstFeed(c) ==
    /\ phase = "first"
    /\ Len(run_input) < MaxReplay
    /\ LET body == MainBody(c, history)
       IN  /\ history' = [history EXCEPT !["production_engine"] = body.r.history]
           /\ last' = CallRecord("production_engine", c, body.benefits, history, body.r)
           /\ out1' = Append(out1, body.r.product)
    /\ run_input' = Append(run_input, c)
    /\ UNCHANGED <<score_vars, ultra_vars>>
    /\ UNCHANGED <<calls, pc, df, idx, results, committed, runs, out2, phase>>

\* engine = ProductionRecommendationEngine(CONFIG.__dict__): an empty history
StartReplay ==
    /\ phase = "first"
    /\ Len(run_input) > 0
    /\ phase' = "replay"
    /\ history' = [history EXCEPT !["engine"] = <<>>]
    /\ UNCHANGED <<score_vars, ultra_vars>>
    /\ UNCHANGED <<last, calls, pc, df, idx, results, committed, runs,
                   run_input, out1, out2>>

\* the next client of the first run, through the fresh engine
ReplayFeed ==
    /\ phase = "replay"
    /\ Len(out2) < Len(run_input)
    /\ LET c == run_input[Len(out2) + 1]
           benefits == calculate_all_benefits_tz_compliant(Row(c))
           r == apply_production_rules_and_select(benefits, Row(c), history["engine"],
                                                  history["production_engine"])
       IN  /\ history' = [history EXCEPT !["engine"] = r.history]
           /\ last' = CallRecord("engine", c, benefits, history, r)
           /\ out2' = Append(out2, r.product)
    /\ UNCHANGED <<score_vars, ultra_vars>>
    /\ UNCHANGED <<calls, pc, df, idx, results, committed, runs, run_input, out1, phase>>

NextReplay == (\E c \in ClientNames : FirstFeed(c)) \/ StartReplay \/ ReplayFeed

SpecReplay == Init /\ [][NextReplay]_vars

(***************************************************************************)
(* Scoring: one client vector goes through the benefit model and then,     *)
(* repeatedly, through the selector of a fresh production engine.  The     *)
(* vector is a row as the feature pipeline hands it over: every field      *)
(* present, a field without activity holding 0; the balance is whatever    *)
(* the clients file holds (data_processing.py:117-118 only fills gaps).    *)
(***************************************************************************)
MaxDecisions == 20

Balances == {-100000, 0, 400000, 6000000}

FeatureVectors ==
    [avg_monthly_balance_KZT   : Balances,
     spend_Food                : {0, 3000000},
     transfer_fx_buy           : {0, 100000},
     transfer_transfer_in      : {0, 900000},
     transfer_transfer_out     : {0, 270000},
     transfer_loan_payment_out : {0, 60000}]

\* the client of the engine's own test (lines 479-486, without the grocery
\* spend): its two card benefits are not whole numbers of tenge and are
\* rounded down here, 3011 and 20016 for 3011.67 and 20016.67
HighBalanceClient ==
    [avg_monthly_balance_KZT |-> 3000000, spend_Restaurants |-> 50000,
     transfer_transfer_in |-> 200000, transfer_transfer_out |-> 150000]

ScoredVectors == FeatureVectors \cup {HighBalanceClient}

InitScore ==
    /\ history = [e \in Engines |-> <<>>]
    /\ last = NoCall
    /\ calls = 0
    /\ pc = "idle"
    /\ df = <<>>
    /\ idx = 0
    /\ results = <<>>
    /\ committed = <<>>
    /\ runs = 0
    /\ run_input = <<>>
    /\ out1 = <<>>
    /\ out2 = <<>>
    /\ phase = "first"
    /\ fv \in ScoredVectors
    /\ bmap = <<>>
    /\ scored = FALSE
    /\ ultra_history = <<>>
    /\ ultra_last = NoCall
    /\ ultra_first = [c \in ClientNames |-> <<>>]

\* benefits = engine.calculate_all_benefits_tz_compliant(client_features)
ScoreClient ==
    /\ ~scored
    /\ bmap' = calculate_all_benefits_tz_compliant(fv)
    /\ scored' = TRUE
    /\ UNCHANGED <<fv, selector_vars, ultra_vars>>

\* engine.apply_production_rules_and_select(benefits, client_features)
Decide ==
    /\ scored
    /\ Len(history["production_engine"]) < MaxDecisions
    /\ LET r == apply_production_rules_and_select(bmap, fv,
                    history["production_engine"], history["production_engine"])
       IN  /\ history' = [history EXCEPT !["production_engine"] = r.history]
           /\ last' = [engine |-> "production_engine", c |-> "fv", b |-> bmap,
                       pre |-> history["production_engine"],
                       gpre |-> history["production_engine"],
                       status |-> r.status, product |-> r.product, path |-> r.path]
    /\ UNCHANGED <<calls, pc, df, idx, results, committed, runs, run_input,
                   out1, out2, phase>>
    /\ UNCHANGED <<score_vars, ultra_vars>>

NextScore == ScoreClient \/ Decide

SpecScore == InitScore /\ [][NextScore]_vars

(***************************************************************************)
(* The selector as a function of its inputs: one call of                   *)
(* apply_production_rules_and_select with a two-product map whose second   *)
(* benefit is a given share of the first, on an engine that holds a given  *)
(* history.  Any sequence of catalog products is a history some sequence   *)
(* of calls leaves behind.                                                 *)
(***************************************************************************)
\* runner-up benefits against a leader of 100000, around the shares at
\* which a boosted runner-up overtakes the leader
BandShares == {83000, 84000, 84700, 84800, 85500, 85600, 90000}

BandMaps ==
    {<<[p |-> p1, b |-> 100000], [p |-> p2, b |-> r]>> :
        p1 \in {"CreditCard", "DepositSavings"},
        p2 \in {"TravelCard", "Gold", "FX"},
        r \in BandShares}

\* histories of t decisions: cl for the leader, cr for the runner-up, the
\* rest for a product outside the map
BandHistories(m) ==
    {Rep(m[1].p, cl) \o Rep(m[2].p, cr) \o Rep("CashLoan", t - cl - cr) :
        t \in {9, 10, 19, 20, 40}, cl \in {0, 3, 6}, cr \in {0, 1, 3}}

InitBand ==
    /\ bmap \in BandMaps
    /\ \E h \in BandHistories(bmap) :
           history = [e \in Engines |->
                         IF e = "production_engine" THEN h ELSE <<>>]
    /\ fv \in {ZeroClient, Traveller}
    /\ scored = TRUE
    /\ last = NoCall
    /\ calls = 0
    /\ pc = "idle"
    /\ df = <<>>
    /\ idx = 0
    /\ results = <<>>
    /\ committed = <<>>
    /\ runs = 0
    /\ run_input = <<>>
    /\ out1 = <<>>
    /\ out2 = <<>>
    /\ phase = "first"
    /\ ultra_history = <<>>
    /\ ultra_last = NoCall
    /\ ultra_first = [c \in ClientNames |-> <<>>]

\* production_engine.apply_production_rules_and_select(benefits, client_features)
BandSelect ==
    /\ last.status = "none"
    /\ LET r == apply_production_rules_and_select(bmap, fv,
                    history["production_engine"], history["production_engine"])
       IN  /\ history' = [history EXCEPT !["production_engine"] = r.history]
           /\ last' = [engine |-> "production_engine", c |-> "fv", b |-> bmap,
                       pre |-> history["production_engine"],
                       gpre |-> history["production_engine"],
                       status |-> r.status, product |-> r.product, path |-> r.path]
    /\ UNCHANGED <<calls, pc, df, idx, results, committed, runs, run_input,
                   out1, out2, phase>>
    /\ UNCHANGED <<score_vars, ultra_vars>>

NextBand == BandSelect

SpecBand == InitBand /\ [][NextBand]_vars

(***************************************************************************)
(* The ultra engine (src/src/ultra_smart_engine.py): its benefit model     *)
(* and its selector.  A score of the ultra engine is a fraction <<n, d>>   *)
(* in lowest terms with d > 0.                                             *)
(***************************************************************************)
RECURSIVE GCD(_, _)
GCD(a, b) == IF b = 0 THEN a ELSE GCD(b, a % b)

Abs(a) == IF a < 0 THEN 0 - a ELSE a

\* n/d in lowest terms
Q(n, d) == LET g == GCD(Abs(n), d) IN <<n \div g, d \div g>>

QAdd(x, y) == Q(x[1] * y[2] + y[1] * x[2], x[2] * y[2])
QSub(x, y) == Q(x[1] * y[2] - y[1] * x[2], x[2] * y[2])
QLess(x, y) == FracLess(x[1], x[2], y[1], y[2])
QMax(x, y) == IF QLess(x, y) THEN y ELSE x

\* the spend_* columns a row can hold
SpendKeys ==
    <<"spend_Taxi", "spend_Hotels", "spend_Restaurants", "spend_Food",
      "spend_Gas", "spend_EatHome", "spend_WatchHome", "spend_PlayHome",
      "spend_Cinema", "spend_Entertainment", "spend_Travel", "spend_Jewelry",
      "spend_Cosmetics", "spend_Clothes">>

RECURSIVE SumFeat(_, _, _)
SumFeat(f, keys, n) ==
    IF n = 0 THEN 0 ELSE Feat(f, keys[n]) + SumFeat(f, keys, n - 1)

\* lines 71-72: the sum of every spend_* column of the row
all_spending(f) == SumFeat(f, SpendKeys, Len(SpendKeys))

\* _calculate_raw_benefits_ultra (lines 39-143), in whole tenge
calculate_raw_benefits_ultra(f) ==
    LET balance == Feat(f, "avg_monthly_balance_KZT")
        total_travel == Feat(f, "spend_Travel") + Feat(f, "spend_Taxi")
                        + Feat(f, "spend_Hotels")
        premium_spend == Feat(f, "spend_Restaurants") + Feat(f, "spend_Jewelry")
                         + Feat(f, "spend_Cosmetics")
        online_spend == Feat(f, "spend_EatHome") + Feat(f, "spend_WatchHome")
                        + Feat(f, "spend_PlayHome")
        total_fx == Feat(f, "transfer_fx_buy") + Feat(f, "transfer_fx_sell")
        cash_flow == Feat(f, "transfer_transfer_in") - Feat(f, "transfer_transfer_out")
        spending == all_spending(f)
        travel_base == (100000 + total_travel * 4) \div 100
        tier_mult == IF balance > 500000 THEN 3 ELSE IF balance > 200000 THEN 2 ELSE 1
        credit_base == (50000 + online_spend * 8 + spending * 2) \div 100
    IN  <<[p |-> "TravelCard",
           b |-> IF total_travel > 5000 THEN travel_base * 3 ELSE travel_base],
          [p |-> "PremiumCard",
           b |-> IF balance > 100000
                 THEN (5000000 + premium_spend * 300 * tier_mult + balance) \div 10000
                 ELSE Max(200, premium_spend \div 100)],
          [p |-> "CreditCard",
           b |-> IF online_spend > 5000 THEN credit_base * 2 ELSE credit_base],
          [p |-> "FX",
           b |-> IF total_fx > 500 THEN (300000 + total_fx * 8) \div 1000
                 ELSE IF total_fx > 0 THEN 100 ELSE 50],
          [p |-> "CashLoan",
           b |-> IF cash_flow < -5000 THEN (80000 + Abs(cash_flow) * 5) \div 100
                 ELSE IF spending > balance THEN 200 ELSE 100],
          [p |-> "DepositMulti",
           b |-> IF balance > 50000 /\ total_fx > 100
                 THEN (balance * 8 + total_fx) \div 100
                 ELSE (balance * 3) \div 100],
          [p |-> "DepositSavings",
           b |-> Max(300, (balance * 6 + Max(0, cash_flow) * 2) \div 100)],
          [p |-> "DepositAccum",
           b |-> IF cash_flow > 1000 THEN (balance * 7 + cash_flow * 30) \div 100
                 ELSE (balance * 4 + 20000) \div 100],
          [p |-> "Investments",
           b |-> IF balance > 150000 /\ cash_flow > 5000
                 THEN (balance * 12 + cash_flow * 50) \div 100
                 ELSE (balance * 2 + Max(0, cash_flow) * 10) \div 100],
          [p |-> "Gold",
           b |-> IF balance > 100000 THEN (balance * 50 + total_fx * 5) \div 1000
                 ELSE (balance + 15000) \div 100]>>

\* _add_ultra_bonuses (lines 169-208): the bonus of a product, in hundredths
add_ultra_bonuses(p, f) ==
    LET balance == Feat(f, "avg_monthly_balance_KZT")
        online_spend == Feat(f, "spend_EatHome") + Feat(f, "spend_WatchHome")
                        + Feat(f, "spend_PlayHome")
        fx_activity == Feat(f, "transfer_fx_buy") + Feat(f, "transfer_fx_sell")
        low  == 50000 <= balance /\ balance <= 200000
        mid  == 200000 <= balance /\ balance <= 800000
    IN  CASE p = "TravelCard"   -> IF Feat(f, "spend_Taxi") > 1000 THEN 40 ELSE 0
          [] p = "PremiumCard"  -> IF Feat(f, "spend_Restaurants") > 5000 THEN 30 ELSE 0
          [] p = "CreditCard"   -> IF online_spend > 3000 THEN 35 ELSE 0
          [] p = "FX"           -> IF fx_activity > 100 THEN 50 ELSE 0
          [] p = "CashLoan"     -> IF low THEN 20 ELSE 0
          [] p = "DepositAccum" -> IF low THEN 30 ELSE 0
          [] p = "DepositMulti" -> IF mid THEN 25 ELSE 0
          [] p = "Investments"  -> IF mid THEN 20 ELSE 0
          [] p = "Gold"         -> IF balance > 300000 THEN 15 ELSE 0
          [] OTHER              -> 0

RECURSIVE MaxBenefit(_, _)
MaxBenefit(raw, n) ==
    IF n = 1 THEN raw[1].b ELSE Max(raw[n].b, MaxBenefit(raw, n - 1))

\* _ultra_normalize_benefits (lines 145-167)
ultra_normalize_benefits(raw, f) ==
    LET max_benefit == MaxBenefit(raw, Len(raw))
    IN  IF max_benefit <= 0
        THEN [i \in 1..Len(raw) |-> [p |-> raw[i].p, s |-> <<1, 10>>]]
        ELSE [i \in 1..Len(raw) |->
                 [p |-> raw[i].p,
                  s |-> QMax(<<1, 20>>,
                             QAdd(Q(raw[i].b, max_benefit),
                                  Q(add_ultra_bonuses(raw[i].p, f), 100)))]]

\* _enforce_diversity (lines 210-235): reads self.recommendation_history
enforce_diversity(normalized, h) ==
    LET t == Len(h)
    IN  IF t > 10
        THEN [i \in 1..Len(normalized) |->
                 LET c == Count(h, normalized[i].p)
                     s == normalized[i].s
                 IN  [p |-> normalized[i].p,
                      s |-> IF 20 * c < t
                            THEN QAdd(s, Q(t - 20 * c, 10 * t))
                            ELSE IF 5 * c > t
                            THEN QMax(<<1, 100>>, QSub(s, Q(3 * (5 * c - t), 10 * t)))
                            ELSE s]]
        ELSE normalized

\* calculate_all_benefits_ultra (lines 25-37); h is self.recommendation_history
calculate_all_benefits_ultra(f, h) ==
    enforce_diversity(ultra_normalize_benefits(calculate_raw_benefits_ultra(f), f), h)

\* _check_critical_rules (lines 271-288)
check_critical_rules(f) ==
    IF Feat(f, "transfer_fx_buy") + Feat(f, "transfer_fx_sell") > 30000 THEN "FX"
    ELSE IF /\ Feat(f, "transfer_transfer_out")
                   > Feat(f, "transfer_transfer_in") + 100000
            /\ Feat(f, "avg_monthly_balance_KZT") < 100000
    THEN "CashLoan"
    ELSE "None"

ScoreOf(benefits, p) ==
    IF \E i \in 1..Len(benefits) : benefits[i].p = p
    THEN benefits[CHOOSE i \in 1..Len(benefits) : benefits[i].p = p].s
    ELSE <<0, 1>>

\* sorted(benefits.items(), key=..., reverse=True): stable, best score first
RECURSIVE SortDescQ(_)
SortDescQ(s) ==
    IF Len(s) <= 1 THEN s
    ELSE LET head == SortDescQ(SubSeq(s, 1, Len(s) - 1))
             x    == s[Len(s)]
             k    == Cardinality({i \in 1..Len(head) : ~QLess(head[i].s, x.s)})
         IN  SubSeq(head, 1, k) \o <<x>> \o SubSeq(head, k + 1, Len(head))

\* A variant of the selection without the quota check of lines 254-266: the
\* best-scored product is always returned.
apply_ultra_smart_selection_noquota(benefits, f, h) ==
    LET mandatory == check_critical_rules(f)
        sorted == SortDescQ(benefits)
        Tops == IF Len(h) > 10
                THEN {i \in 1..Len(sorted) : ~QLess(sorted[i].s, sorted[1].s)}
                ELSE {1}
    IN  IF Len(benefits) = 0
        THEN {[product |-> "DepositSavings", history |-> h]}
        ELSE IF mandatory # "None" /\ QLess(<<1, 10>>, ScoreOf(benefits, mandatory))
        THEN {[product |-> mandatory, history |-> Append(h, mandatory)]}
        ELSE {[product |-> sorted[best].p, history |-> Append(h, sorted[best].p)] :
                  best \in Tops}

\* apply_ultra_smart_selection (lines 237-269): the results the call can
\* have, each the product returned and the history after the call.  Up to
\* ten recorded decisions the scores are correctly rounded quotients and the
\* result is one.  Beyond ten, _enforce_diversity has added to or subtracted
\* from the scores in floating point, and two scores that are equal as
\* fractions can come out one rounding step apart: the order max() and
\* sorted() give to such a pair is left open.
apply_ultra_smart_selection(benefits, f, h) ==
    LET mandatory == check_critical_rules(f)
        sorted == SortDescQ(benefits)
        t == Len(h)
        Free(i) == /\ 5 * Count(h, sorted[i].p) < t
                   /\ QLess(<<1, 10>>, sorted[i].s)
        Tops == IF t > 10
                THEN {i \in 1..Len(sorted) : ~QLess(sorted[i].s, sorted[1].s)}
                ELSE {1}
        Alts(best) ==
            IF t > 10
            THEN {i \in 1..Len(sorted) \ {best} :
                      /\ Free(i)
                      /\ \A j \in 1..Len(sorted) \ {best} :
                             Free(j) => ~QLess(sorted[i].s, sorted[j].s)}
            ELSE {i \in 2..Len(sorted) : Free(i) /\ \A j \in 2..(i - 1) : ~Free(j)}
        Picks(best) ==
            IF t > 5 /\ 5 * Count(h, sorted[best].p) >= t /\ Alts(best) # {}
            THEN {sorted[i].p : i \in Alts(best)}
            ELSE {sorted[best].p}
    IN  IF Len(benefits) = 0
        THEN {[product |-> "DepositSavings", history |-> h]}
        ELSE IF mandatory # "None" /\ QLess(<<1, 10>>, ScoreOf(benefits, mandatory))
        THEN {[product |-> mandatory, history |-> Append(h, mandatory)]}
        ELSE {[product |-> p, history |-> Append(h, p)] :
                  p \in UNION {Picks(best) : best \in Tops}}

MaxUltra == 11

UltraClients == {"ZeroClient", "Foodie"}

\* benefits = calculate_all_benefits(client, config) on the ultra engine
UltraScore(c) ==
    /\ ultra_last.status # "scored"
    /\ LET b == calculate_all_benefits_ultra(Row(c), ultra_history)
       IN  /\ ultra_last' = [status |-> "scored", c |-> c, b |-> b,
                             pre |-> ultra_history]
           /\ ultra_first' = IF ultra_first[c] = <<>>
                             THEN [ultra_first EXCEPT ![c] = b]
                             ELSE ultra_first
    /\ UNCHANGED <<ultra_history, selector_vars, score_vars>>

\* apply_rules_and_select_best(benefits, client, config) on the ultra engine
UltraSelect ==
    /\ ultra_last.status = "scored"
    /\ Len(ultra_history) < MaxUltra
    /\ \E r \in apply_ultra_smart_selection(ultra_last.b, Row(ultra_last.c),
                                            ultra_history) :
           ultra_history' = r.history
    /\ ultra_last' = [ultra_last EXCEPT !.status = "selected"]
    /\ UNCHANGED <<ultra_first, selector_vars, score_vars>>

NextUltra == (\E c \in UltraClients : UltraScore(c)) \/ UltraSelect

SpecUltra == Init /\ [][NextUltra]_vars

(***************************************************************************)
(* The basic engine (src/src/recommendation_engine.py): its benefit model. *)
(* A benefit of the basic engine is a fraction <<n, d>> in lowest terms.   *)
(***************************************************************************)
QMul(x, y) == Q(x[1] * y[1], x[2] * y[2])
QMin(x, y) == IF QLess(y, x) THEN y ELSE x

\* RFMD_THRESHOLDS (config.py:45-48)
high_balance == 1000000
fx_volume_threshold == 10000

\* lines 112-123
calc_travel_benefit(travel_spend, taxi_spend, balance) ==
    LET travel_categories_spend == travel_spend + taxi_spend
        cashback == IF balance > high_balance
                    THEN Q(48 * travel_categories_spend, 1000)
                    ELSE Q(4 * travel_categories_spend, 100)
    IN  QMin(cashback, <<10000, 1>>)

\* lines 126-141
calc_premium_benefit(balance, restaurant_spend, jewelry_spend, cosmetics_spend) ==
    LET spend == restaurant_spend + jewelry_spend + cosmetics_spend
        base_cashback == IF balance > high_balance * 2
                         THEN Q(4 * spend, 100) ELSE Q(3 * spend, 100)
        premium_cashback == Q(4 * spend, 100)
        saved_fees == QMin(Q(balance, 2000), <<3000, 1>>)
    IN  IF balance < high_balance THEN <<0, 1>>
        ELSE QAdd(QAdd(base_cashback, premium_cashback), saved_fees)

\* lines 144-160: 0.18 * (60/365) = 54/1825
calc_credit_benefit(restaurant_spend, shopping_spend, entertainment_spend, online_spend, top_categories_spend) ==
    LET total_spend == restaurant_spend + shopping_spend + entertainment_spend
        top_categories_cashback == Q(top_categories_spend, 10)
        online_cashback == Q(online_spend, 10)
        interest_saved == Q(total_spend * 54, 1825)
        installment_benefit == QMin(Q(total_spend, 20), <<2000, 1>>)
    IN  QAdd(QAdd(top_categories_cashback, online_cashback),
             QAdd(interest_saved, installment_benefit))

\* lines 163-177
calc_fx_benefit(fx_buy, fx_sell) ==
    LET total_fx_volume == fx_buy + fx_sell
    IN  IF total_fx_volume < fx_volume_threshold THEN <<0, 1>>
        ELSE IF total_fx_volume > fx_volume_threshold * 2
        THEN Q(total_fx_volume * 15, 2000)
        ELSE Q(total_fx_volume * 5, 1000)

\* lines 180-195
calc_cash_credit_benefit(transfer_out, transfer_in, balance) ==
    LET cash_flow_gap == transfer_out - transfer_in
        interest_savings == Q(cash_flow_gap * 6, 100)
        creditworthiness_bonus == QMin(Q(balance, 10000), <<1000, 1>>)
    IN  IF cash_flow_gap <= 0 THEN <<0, 1>>
        ELSE QAdd(interest_savings, creditworthiness_bonus)

\* lines 198-211
calc_multi_deposit_benefit(balance, fx_buy, fx_sell) ==
    LET base_return == Q(balance * 8, 100)
    IN  IF 2 * balance < high_balance THEN <<0, 1>>
        ELSE IF fx_buy + fx_sell > fx_volume_threshold
        THEN QAdd(base_return, QMul(base_return, <<1, 5>>))
        ELSE base_return

\* lines 214-224
calc_savings_deposit_benefit(balance, transfer_in, transfer_out) ==
    LET savings_potential == Max(0, transfer_in - transfer_out)
        deposit_amount == QMin(<<balance, 1>>,
                               QAdd(<<balance, 1>>, Q(savings_potential, 2)))
    IN  IF balance < 50000 THEN <<0, 1>>
        ELSE QMul(deposit_amount, <<6, 100>>)

\* lines 227-236
calc_accumulation_deposit_benefit(balance, transfer_in) ==
    LET annual_accumulation == transfer_in * 12
        progressive_rate == QAdd(<<5, 100>>,
                                 QMin(Q(annual_accumulation, 1000000), <<3, 100>>))
    IN  IF transfer_in < 10000 THEN <<0, 1>>
        ELSE QMul(<<annual_accumulation, 1>>, progressive_rate)

\* lines 239-255
calc_investment_benefit(balance, transfer_in, transfer_out) ==
    LET free_cash == balance + transfer_in - transfer_out
        investment_amount == QMax(<<0, 1>>, QMin(Q(free_cash * 3, 10), Q(balance, 2)))
        expected_return == QMul(investment_amount, <<12, 100>>)
    IN  IF balance < high_balance THEN <<0, 1>>
        ELSE IF QLess(<<high_balance, 1>>, investment_amount)
        THEN QMul(expected_return, <<12, 10>>)
        ELSE expected_return

\* lines 258-274
calc_gold_benefit(balance, fx_buy, fx_sell) ==
    LET gold_investment == QMin(Q(balance, 5), <<500000, 1>>)
        base_return == QMul(gold_investment, <<5, 100>>)
    IN  IF 2 * balance < high_balance THEN <<0, 1>>
        ELSE IF fx_buy + fx_sell > fx_volume_threshold
        THEN QMul(base_return, <<13, 10>>)
        ELSE base_return

\* the amounts of the spend_* fields of the row
SpendAmounts(f) == [i \in 1..Len(SpendKeys) |-> Feat(f, SpendKeys[i])]

\* calculate_all_benefits of recommendation_engine.py (lines 17-109)
calculate_all_benefits_basic(f) ==
    LET balance == Feat(f, "avg_monthly_balance_KZT")
        travel_spend == Feat(f, "spend_Travel")
        taxi_spend == Feat(f, "spend_Taxi")
        hotel_spend == Feat(f, "spend_Hotels")
        restaurant_spend == Feat(f, "spend_Restaurants")
        jewelry_spend == Feat(f, "spend_Jewelry")
        cosmetics_spend == Feat(f, "spend_Cosmetics")
        entertainment_spend == Feat(f, "spend_Entertainment")
        online_spend == Feat(f, "spend_EatHome") + Feat(f, "spend_WatchHome")
                        + Feat(f, "spend_PlayHome")
        top_categories_spend == Top3Sum(SpendAmounts(f))
        fx_buy == Feat(f, "transfer_fx_buy")
        fx_sell == Feat(f, "transfer_fx_sell")
        transfer_out == Feat(f, "transfer_transfer_out")
        transfer_in == Feat(f, "transfer_transfer_in")
    IN  <<[p |-> "TravelCard",
           b |-> calc_travel_benefit(travel_spend + hotel_spend, taxi_spend, balance)],
          [p |-> "PremiumCard",
           b |-> calc_premium_benefit(balance, restaurant_spend, jewelry_spend,
                                      cosmetics_spend)],
          [p |-> "CreditCard",
           b |-> calc_credit_benefit(restaurant_spend, entertainment_spend,
                                     entertainment_spend, online_spend,
                                     top_categories_spend)],
          [p |-> "FX", b |-> calc_fx_benefit(fx_buy, fx_sell)],
          [p |-> "CashLoan",
           b |-> calc_cash_credit_benefit(transfer_out, transfer_in, balance)],
          [p |-> "DepositMulti",
           b |-> calc_multi_deposit_benefit(balance, fx_buy, fx_sell)],
          [p |-> "DepositSavings",
           b |-> calc_savings_deposit_benefit(balance, transfer_in, transfer_out)],
          [p |-> "DepositAccum",
           b |-> calc_accumulation_deposit_benefit(balance, transfer_in)],
          [p |-> "Investments",
           b |-> calc_investment_benefit(balance, transfer_in, transfer_out)],
          [p |-> "Gold", b |-> calc_gold_benefit(balance, fx_buy, fx_sell)]>>

\* the rows the basic benefit model is applied to: every field present, the
\* balance whatever the clients file holds
BasicVectors ==
    [avg_monthly_balance_KZT : {-100000, 0, 600000, 3000000},
     spend_Travel            : {0, 300000},
     spend_Restaurants       : {0, 50000},
     spend_Entertainment     : {0, 20000},
     transfer_fx_buy         : {0, 30000},
     transfer_transfer_in    : {0, 200000},
     transfer_transfer_out   : {0, 150000, 200100}]

InitBasic ==
    /\ history = [e \in Engines |-> <<>>]
    /\ last = NoCall
    /\ calls = 0
    /\ pc = "idle"
    /\ df = <<>>
    /\ idx = 0
    /\ results = <<>>
    /\ committed = <<>>
    /\ runs = 0
    /\ run_input = <<>>
    /\ out1 = <<>>
    /\ out2 = <<>>
    /\ phase = "first"
    /\ fv \in BasicVectors
    /\ bmap = <<>>
    /\ scored = FALSE
    /\ ultra_history = <<>>
    /\ ultra_last = NoCall
    /\ ultra_first = [c \in ClientNames |-> <<>>]

\* benefits = calculate_all_benefits(client_features, config)
BasicScore ==
    /\ ~scored
    /\ bmap' = calculate_all_benefits_basic(fv)
    /\ scored' = TRUE
    /\ UNCHANGED <<fv, selector_vars, ultra_vars>>

NextBasic == BasicScore

SpecBasic == InitBasic /\ [][NextBasic]_vars

(***************************************************************************)
(* The smart engine (src/src/smart_recommendation_engine.py): its          *)
(* normalized benefit model.  Benefits are fractions in lowest terms.      *)
(***************************************************************************)
\* x / y for y > 0
QDiv(x, y) == Q(x[1] * y[2], x[2] * y[1])

\* line 90: sum(sorted(v for v in spend_* if v > 0, reverse=True)[:3])
top_3_spend(f) ==
    Top3Sum([i \in 1..Len(SpendKeys) |-> Max(0, Feat(f, SpendKeys[i]))])

\* SmartRecommendationEngine._calculate_raw_benefits (lines 35-148)
calculate_raw_benefits(f) ==
    LET balance == Feat(f, "avg_monthly_balance_KZT")
        total_travel == Feat(f, "spend_Travel") + Feat(f, "spend_Taxi")
                        + Feat(f, "spend_Hotels")
        premium_spend == Feat(f, "spend_Restaurants") + Feat(f, "spend_Jewelry")
                         + Feat(f, "spend_Cosmetics")
        online_spend == Feat(f, "spend_EatHome") + Feat(f, "spend_WatchHome")
                        + Feat(f, "spend_PlayHome")
        total_fx == Feat(f, "transfer_fx_buy") + Feat(f, "transfer_fx_sell")
        transfer_out == Feat(f, "transfer_transfer_out")
        transfer_in == Feat(f, "transfer_transfer_in")
        travel_cashback == QMin(Q(total_travel * 4, 100), <<10000, 1>>)
        travel_bonus == IF total_travel > 20000 THEN <<1, 1>>
                        ELSE IF total_travel > 5000 THEN <<1, 2>> ELSE <<1, 10>>
        top3 == top_3_spend(f)
        cash_deficit == Max(0, transfer_out - transfer_in)
        surplus == transfer_in - transfer_out
    IN  <<[p |-> "TravelCard", b |-> QMul(travel_cashback, travel_bonus)],
          [p |-> "PremiumCard",
           b |-> IF balance > 500000
                 THEN QAdd(QMin(Q(premium_spend * (IF balance > 1500000 THEN 8 ELSE 6),
                                  100),
                                <<15000, 1>>),
                           QMin(Q(balance, 2000), <<5000, 1>>))
                 ELSE <<0, 1>>],
          [p |-> "CreditCard",
           b |-> QAdd(QMin(Q(top3 + online_spend, 10), <<8000, 1>>),
                      QMin(Q(top3 * 2, 100), <<2000, 1>>))],
          [p |-> "FX",
           b |-> IF total_fx > 1000
                 THEN QAdd(Q(total_fx * 5, 1000),
                           IF total_fx > 10000 THEN <<500, 1>> ELSE <<200, 1>>)
                 ELSE <<0, 1>>],
          [p |-> "CashLoan",
           b |-> IF cash_deficit > 20000 /\ balance < 400000
                 THEN QAdd(Q(cash_deficit * 6, 100),
                           QMin(Q(cash_deficit, 100), <<3000, 1>>))
                 ELSE <<0, 1>>],
          [p |-> "DepositMulti",
           b |-> IF balance > 200000 /\ total_fx > 2000
                 THEN QAdd(Q(balance * 8, 100), QMin(Q(total_fx, 100), <<2000, 1>>))
                 ELSE Q(balance * 24, 1000)],
          [p |-> "DepositSavings",
           b |-> QAdd(Q(balance * 6, 100),
                      IF transfer_in >= transfer_out THEN <<1000, 1>> ELSE <<0, 1>>)],
          [p |-> "DepositAccum",
           b |-> IF transfer_in > 10000 /\ transfer_in > transfer_out
                 THEN QAdd(QMul(<<balance, 1>>,
                                QAdd(<<7, 100>>, QMin(Q(surplus, 100000), <<2, 100>>))),
                           Q(surplus, 2))
                 ELSE Q(balance * 35, 1000)],
          [p |-> "Investments",
           b |-> IF balance > 800000 /\ transfer_in > transfer_out
                 THEN QAdd(QMul(QMin(Q(balance * 3, 10), <<500000, 1>>), <<12, 100>>),
                           QMin(Q(balance, 1000), <<3000, 1>>))
                 ELSE <<0, 1>>],
          [p |-> "Gold",
           b |-> IF balance > 600000
                 THEN QAdd(QMul(QMin(Q(balance, 5), <<300000, 1>>), <<5, 100>>),
                           QMin(Q(balance, 2000), <<1500, 1>>))
                 ELSE <<0, 1>>]>>

\* _add_diversity_bonuses (lines 172-203): the score of product p after it
add_diversity_bonuses(p, x, f) ==
    LET balance == Feat(f, "avg_monthly_balance_KZT")
        online_total == Feat(f, "spend_EatHome") + Feat(f, "spend_WatchHome")
                        + Feat(f, "spend_PlayHome")
        bonus ==
            CASE p = "TravelCard" /\ Feat(f, "spend_Taxi") > 10000 -> <<2, 10>>
              [] p = "PremiumCard" /\ Feat(f, "spend_Restaurants") > 15000
                                   /\ balance > 500000 -> <<3, 10>>
              [] p = "CreditCard" /\ online_total > 20000 -> <<25, 100>>
              [] p = "FX" /\ Feat(f, "transfer_fx_buy")
                             + Feat(f, "transfer_fx_sell") > 5000 -> <<4, 10>>
              [] OTHER -> <<0, 1>>
        y == QAdd(x, bonus)
        z == IF p = "DepositSavings" /\ balance > 0
             THEN QMax(<<1, 10>>, QMul(y, <<7, 10>>))
             ELSE y
    IN  QMax(<<1, 20>>, z)

\* _add_cluster_affinity (lines 205-222): the score of product p after it
add_cluster_affinity(p, x, f) ==
    LET cluster == Feat(f, "cluster")
        favoured ==
            CASE cluster = 0 -> {"TravelCard", "FX"}
              [] cluster = 1 -> {"CreditCard", "DepositAccum"}
              [] cluster = 2 -> {"PremiumCard", "Investments"}
              [] cluster = 3 -> {"DepositSavings", "Gold"}
              [] OTHER -> {}
    IN  IF p \in favoured THEN QAdd(x, <<1, 10>>) ELSE x

RECURSIVE MaxBenefitQ(_, _)
MaxBenefitQ(raw, n) ==
    IF n = 1 THEN raw[1].b ELSE QMax(MaxBenefitQ(raw, n - 1), raw[n].b)

\* _normalize_benefits (lines 150-170)
normalize_benefits(raw, f) ==
    LET max_benefit == MaxBenefitQ(raw, Len(raw))
    IN  IF max_benefit = <<0, 1>>
        THEN [i \in 1..Len(raw) |-> [p |-> raw[i].p, b |-> <<1, 10>>]]
        ELSE [i \in 1..Len(raw) |->
                 [p |-> raw[i].p,
                  b |-> add_cluster_affinity(raw[i].p,
                            add_diversity_bonuses(raw[i].p,
                                QDiv(raw[i].b, max_benefit), f), f)]]

\* calculate_all_benefits_normalized (lines 25-33)
calculate_all_benefits_normalized(f) ==
    normalize_benefits(calculate_raw_benefits(f), f)

\* the rows the smart benefit model is applied to
SmartVectors ==
    [avg_monthly_balance_KZT : {-100000, 0, 600000, 3000000},
     spend_Taxi              : {0, 30000},
     spend_Restaurants       : {0, 50000},
     transfer_fx_buy         : {0, 1000000},
     transfer_transfer_in    : {0, 200000},
     transfer_transfer_out   : {0, 150000},
     cluster                 : {0, 1, 2, 3}]

InitSmart ==
    /\ history = [e \in Engines |-> <<>>]
    /\ last = NoCall
    /\ calls = 0
    /\ pc = "idle"
    /\ df = <<>>
    /\ idx = 0
    /\ results = <<>>
    /\ committed = <<>>
    /\ runs = 0
    /\ run_input = <<>>
    /\ out1 = <<>>
    /\ out2 = <<>>
    /\ phase = "first"
    /\ fv \in SmartVectors
    /\ bmap = <<>>
    /\ scored = FALSE
    /\ ultra_history = <<>>
    /\ ultra_last = NoCall
    /\ ultra_first = [c \in ClientNames |-> <<>>]

\* benefits = engine.calculate_all_benefits_normalized(client_features)
SmartScore ==
    /\ ~scored
    /\ bmap' = calculate_all_benefits_normalized(fv)
    /\ scored' = TRUE
    /\ UNCHANGED <<fv, selector_vars, ultra_vars>>

NextSmart == SmartScore

SpecSmart == InitSmart /\ [][NextSmart]_vars

(***************************************************************************)
(* Properties                                                              *)
(***************************************************************************)
Keys(benefits) == {benefits[i].p : i \in 1..Len(benefits)}

Share100(h, p) == 100 * Count(h, p)

\* C1: whenever apply_production_rules_and_select is called with a benefit
\* map whose keys are catalog products (the empty map included), whatever
\* the history, the call returns a product of the catalog.
C1_ReturnsCatalogProduct ==
    (last.status # "none" /\ Keys(last.b) \subseteq Catalog)
        => (last.status = "ok" /\ last.product \in Catalog)

\* a call on the weighted path against a history of twenty or more decisions
C1_Witness ==
    /\ last.status = "ok"
    /\ last.path = "weighted"
    /\ Len(last.pre) >= 20
    /\ Len(last.b) = Len(PRODUCTS)
    /\ last.product \in Catalog

\* C2: every call that returns a product leaves the history of its engine
\* equal to the history before the call with that product appended: one
\* entry per call, earlier entries untouched.
C2_OneEntryPerCall ==
    last.status = "ok" => history[last.engine] = Append(last.pre, last.product)

\* C3: in a run from an empty history over clients for whom one and the same
\* product has the strictly highest raw benefit, once twenty decisions are
\* made no product holds more than 50% (plus a 5-point tolerance) of them.
Dominant(rows) ==
    \E p \in Catalog : \A i \in 1..Len(rows) : \A q \in Catalog \ {p} :
        LET benefits == calculate_all_benefits_tz_compliant(Row(rows[i]))
        IN  BenefitOf(benefits, p) > BenefitOf(benefits, q)

C3_AntiMonopoly ==
    (/\ runs = 1
     /\ Len(df) > 0
     /\ Len(history["production_engine"]) >= 20
     /\ Dominant(df))
        => \A p \in Catalog :
              Share100(history["production_engine"], p)
                  <= 55 * Len(history["production_engine"])

\* C4: a call for a client whose FX volume (fx_buy + fx_sell) exceeds 50000
\* and whose FX benefit exceeds 1000 returns FX, whatever the history and the
\* other scores.
C4_FxPrecedence ==
    (last.status # "none" /\ FxRule(Row(last.c), last.b))
        => (last.status = "ok" /\ last.product = "FX")

\* C5: a product forced by a rule (rare-product or mandatory) had, before
\* the decision, a share of the history of at most 1.5 times its quota.
C5_ForcedWithinQuota ==
    (/\ last.status = "ok"
     /\ last.path \in {"rare", "mandatory"}
     /\ Len(last.pre) > 0)
        => ~OverTolerance(Count(last.pre, last.product), Len(last.pre),
                          product_quotas(last.product, 10))

\* C6: the same clients in the same order through a freshly constructed
\* engine get the same products as in the first run.
C6_ReplayDeterminism ==
    \A i \in 1..Len(out2) : out2[i] = out1[i]

\* C7: after a finished run of twenty or more clients from an empty history,
\* the share of every product is at most 1.5 times its quota.
C7_QuotaBand ==
    (/\ runs = 1
     /\ pc = "idle"
     /\ Len(history["production_engine"]) >= 20)
        => \A p \in Catalog :
              ~OverTolerance(Count(history["production_engine"], p),
                             Len(history["production_engine"]),
                             product_quotas(p, 10))

\* C8: a call with a non-empty benefit map, against any reachable history
\* (every candidate over its quota included), raises no error and returns
\* one of the map's products.
C8_NoErrorOnCandidates ==
    (last.status # "none" /\ Len(last.b) > 0)
        => (last.status = "ok" /\ last.product \in Keys(last.b))

\* a call with twenty or more decisions behind it in which every candidate
\* already holds more than its quota
C8_Witness ==
    /\ last.status = "ok"
    /\ Len(last.b) > 0
    /\ Len(last.pre) >= 20
    /\ \A i \in 1..Len(viable_products(last.b)) :
          Share100(last.pre, viable_products(last.b)[i].p)
              > product_quotas(viable_products(last.b)[i].p, 10) * Len(last.pre)

\* C9: when the loop of main() is about to take its first client, the
\* history of the module-level engine is empty.
C9_EmptyAtBatchStart ==
    (pc = "loop" /\ idx = 0) => history["production_engine"] = <<>>

\* C10: the decision for the n-th client of a run is computed against
\* exactly the products committed for clients 1..n-1 of that run.
C10_SeesOwnRunOnly ==
    (pc = "loop" /\ idx > 0 /\ last.status = "ok")
        => last.pre = SubSeq(committed, 1, Len(committed) - 1)

\* C11: the map the benefit model returns has an entry for each of the ten
\* catalog products, and every score in it is non-negative.
C11_CompleteNonNegative ==
    scored => /\ Len(bmap) = Len(PRODUCTS)
              /\ Keys(bmap) = Catalog
              /\ \A i \in 1..Len(bmap) : bmap[i].b >= 0

ZeroActivity(f) == \A k \in DOMAIN f : f[k] = 0

\* C12: a client with zero in every field gets a strictly positive score
\* for every catalog product.
C12_PositiveFloor ==
    (scored /\ ZeroActivity(fv))
        => /\ Keys(bmap) = Catalog
           /\ \A i \in 1..Len(bmap) : bmap[i].b > 0

\* the map is the one the benefit model computes for the client without
\* activity
ZeroClientCall ==
    /\ last.status # "none"
    /\ last.c = "ZeroClient"
    /\ last.b = calculate_all_benefits_tz_compliant(ZeroClient)

\* C13: for the client without activity, the benefit map followed by the
\* selector returns one catalog product, recorded once, and no error,
\* whatever the history.
C13_ZeroClientGetsProduct ==
    ZeroClientCall
        => /\ last.status = "ok"
           /\ last.product \in Catalog
           /\ history[last.engine] = Append(last.pre, last.product)

\* the client without activity is served against twenty or more decisions
\* made for other clients
C13_Witness ==
    /\ ZeroClientCall
    /\ last.status = "ok"
    /\ Len(last.pre) >= 20
    /\ last.pre[1] # "CreditCard"
    /\ last.product \in Catalog

Drop(f, k) == [j \in DOMAIN f \ {k} |-> f[j]]

SelectedFor(f, h) ==
    LET r == apply_production_rules_and_select(
                 calculate_all_benefits_tz_compliant(f), f, h, h)
    IN  <<r.status, r.product>>

\* C15: removing a field that holds zero changes neither the benefit map
\* nor the selector's answer from the same history.
C15_AbsentIsZero ==
    scored =>
        \A k \in DOMAIN fv :
            fv[k] = 0 =>
                /\ calculate_all_benefits_tz_compliant(Drop(fv, k)) = bmap
                /\ SelectedFor(Drop(fv, k), history["production_engine"])
                       = SelectedFor(fv, history["production_engine"])

\* a vector with a zero field has been scored and served twenty times
C15_Witness ==
    /\ scored
    /\ \E k \in DOMAIN fv : fv[k] = 0
    /\ \E k \in DOMAIN fv : fv[k] # 0
    /\ Len(history["production_engine"]) >= 20
    /\ last.status = "ok"

ScoredPath == last.status = "ok" /\ last.path \in {"tie", "weighted"}

\* C16: scored selection returns a product of the map, and a product whose
\* benefit is at or below 100 only when no product of the map exceeds 100;
\* the candidate list of a non-empty map is never empty.
C16_ViabilityFilter ==
    /\ (last.status # "none" /\ Len(last.b) > 0)
           => Len(viable_products(last.b)) > 0
    /\ ScoredPath
           => /\ last.product \in Keys(last.b)
              /\ BenefitOf(last.b, last.product) <= 100
                     => \A i \in 1..Len(last.b) : last.b[i].b <= 100

\* scored selection over a map with nothing above 100 returns one of its
\* products
C16_Witness ==
    /\ ScoredPath
    /\ Len(last.b) >= 2
    /\ BenefitOf(last.b, last.product) <= 100
    /\ \E i \in 1..Len(last.b) : last.b[i].b < BenefitOf(last.b, last.product)

\* leader and runner-up of the last call: the first two candidates
Leader   == viable_products(last.b)[1]
RunnerUp == viable_products(last.b)[2]

\* the leader holds more than half of the recorded decisions
LeaderOverHalf == 2 * Count(last.pre, Leader.p) > Len(last.pre)

\* the leader is above 1.2 times its quota, the runner-up under its own
LeaderOverQuota ==
    /\ 1000 * Count(last.pre, Leader.p)
           > 12 * product_quotas(Leader.p, 10) * Len(last.pre)
    /\ 100 * Count(last.pre, RunnerUp.p)
           < product_quotas(RunnerUp.p, 10) * Len(last.pre)

\* C17: in scored selection with at least 20 recorded decisions and a
\* runner-up at 97% or more of the leader's benefit, the runner-up is
\* returned and recorded when the leader holds more than 50% of the
\* history, or more than 1.2 times its quota while the runner-up is under
\* its own quota; with fewer than 20 decisions the tie check never decides.
C17_TieCheck ==
    ScoredPath =>
        /\ (/\ Len(viable_products(last.b)) >= 2
            /\ Len(last.pre) >= 20
            /\ 100 * RunnerUp.b >= 97 * Leader.b
            /\ (LeaderOverHalf \/ LeaderOverQuota))
               => /\ last.product = RunnerUp.p
                  /\ history[last.engine] = Append(last.pre, RunnerUp.p)
        /\ last.path = "tie" => Len(last.pre) >= 20

\* the runner-up is returned against a leader with more than half of the
\* history although both are far above their quotas
C17_Witness ==
    /\ ScoredPath
    /\ Len(viable_products(last.b)) >= 2
    /\ Len(last.pre) >= 20
    /\ 100 * RunnerUp.b >= 97 * Leader.b
    /\ LeaderOverHalf
    /\ 100 * Count(last.pre, RunnerUp.p) > 40 * Len(last.pre)
    /\ last.product = RunnerUp.p

\* a candidate of the last call whose share is above 1.5 times its quota
AboveBand(p) ==
    200 * Count(last.pre, p) > 3 * product_quotas(p, 10) * Len(last.pre)

MapIndex(benefits, p) == CHOOSE i \in 1..Len(benefits) : benefits[i].p = p

\* the candidate the last call returned
Chosen ==
    [p |-> last.product, b |-> BenefitOf(last.b, last.product)]

\* candidate x has the same weighted score as the returned one
SameScoreAsChosen(x) ==
    /\ ~ScoreGreater(x, Chosen, viable_products(last.b), last.pre, Row(last.c))
    /\ ~ScoreGreater(Chosen, x, viable_products(last.b), last.pre, Row(last.c))

AllOverQuota ==
    /\ Len(last.pre) > 0
    /\ Len(viable_products(last.b)) > 0
    /\ \A i \in 1..Len(viable_products(last.b)) :
          Share100(last.pre, viable_products(last.b)[i].p)
              > product_quotas(viable_products(last.b)[i].p, 10) * Len(last.pre)

\* the candidates with the lowest share of the history
LowestShare ==
    {i \in 1..Len(viable_products(last.b)) :
        \A j \in 1..Len(viable_products(last.b)) :
            Count(last.pre, viable_products(last.b)[i].p)
                <= Count(last.pre, viable_products(last.b)[j].p)}

\* C20: when every candidate already holds more than its quota, scored
\* selection returns the candidate with the highest raw benefit among the
\* candidates with the lowest share.
C20_ExhaustionOrder ==
    (ScoredPath /\ AllOverQuota) =>
        \E i \in LowestShare :
            /\ viable_products(last.b)[i].p = last.product
            /\ \A j \in LowestShare :
                  viable_products(last.b)[j].b <= viable_products(last.b)[i].b

\* C14: a benefit model's answer depends on the feature vector alone: a
\* call for a client returns the scores the first call for that client
\* returned, however many decisions were recorded in between, and leaves
\* the history as it was.  (calculate_all_benefits_tz_compliant reads
\* nothing but its argument; the formula is about the ultra variant.)
C14_SameVectorSameScores ==
    ultra_last.status = "scored"
        => /\ ultra_last.b = ultra_first[ultra_last.c]
           /\ ultra_history = ultra_last.pre

\* the rows of the running batch whose processing raised
Failed(i) == generate_push_text(df[i], "None") # "text"

\* C21: an exception raised while one client of the batch is processed does
\* not abort the batch: main() leaves the loop only after the last row, and
\* the result rows are exactly the rows processed so far that did not raise,
\* in order (the failed client has no row, every later client has one).
C21_FailureIsolation ==
    /\ (pc = "idle" /\ runs > 0) => idx = Len(df)
    /\ idx <= Len(df)
    /\ LET done == {i \in 1..idx : ~Failed(i)}
       IN  /\ Len(results) = Cardinality(done)
           /\ {results[k].row : k \in 1..Len(results)} = done
           /\ \A k \in 1..(Len(results) - 1) : results[k].row < results[k + 1].row

\* a client failed and a later client of the same batch has its result row
C21_Witness ==
    /\ pc = "idle"
    /\ \E i \in 1..Len(df) : \E k \in 1..Len(results) :
           Failed(i) /\ results[k].row > i

\* C22: for every client feature vector the basic engine's
\* calculate_all_benefits returns a benefit for each product of
\* CONFIG.PRODUCTS, and every benefit is greater than or equal to zero.
C22_BasicCompleteNonNegative ==
    scored => /\ Len(bmap) = Len(PRODUCTS)
              /\ \A i \in 1..Len(bmap) :
                     bmap[i].p = PRODUCTS[i] /\ ~QLess(bmap[i].b, <<0, 1>>)

\* C23: calculate_all_benefits_normalized returns, for every client and
\* every product, a benefit in the range [0, 1].
C23_NormalizedInUnitRange ==
    scored => \A i \in 1..Len(bmap) :
                  /\ ~QLess(bmap[i].b, <<0, 1>>)
                  /\ ~QLess(<<1, 1>>, bmap[i].b)

\* the feature vector of the selector's last call
LastRow == IF last.c = "fv" THEN fv ELSE Row(last.c)

\* the last call was made in the warm-up: a non-empty map, fewer than 10
\* decisions recorded, no mandatory rule fired, travel spend at most 500 000
WarmUp ==
    /\ last.status = "ok"
    /\ Len(last.b) > 0
    /\ Len(last.pre) < 10
    /\ LET m == check_mandatory_rules(LastRow, last.b, last.gpre)
       IN  m = "None" \/ BenefitOf(last.b, m) <= 1000
    /\ Feat(LastRow, "spend_Travel") + Feat(LastRow, "spend_Hotels")
           + Feat(LastRow, "spend_Taxi") <= 500000

\* the candidates of a map: the entries above 100, or all when there is none
Candidates(benefits) ==
    LET above == {i \in 1..Len(benefits) : benefits[i].b > 100}
    IN  IF above = {} THEN 1..Len(benefits) ELSE above

\* C24: in the warm-up apply_production_rules_and_select returns the
\* candidate with the highest raw benefit, the first one in map order on
\* equal benefit, whatever the recorded decisions are.
C24_WarmUpPicksTopBenefit ==
    WarmUp =>
        \E i \in Candidates(last.b) :
            /\ last.product = last.b[i].p
            /\ \A j \in Candidates(last.b) :
                   /\ last.b[j].b <= last.b[i].b
                   /\ last.b[j].b = last.b[i].b => i <= j

\* the client of the scenario went through a fresh selector and through one
\* that holds nine decisions for one product, and got the top product both
\* times
C24_Witness ==
    /\ WarmUp
    /\ fv = HighBalanceClient
    /\ Len(last.pre) = 9
    /\ Count(last.pre, "DepositSavings") = 9
    /\ last.product = "DepositSavings"

\* the leader's running share is at most 1.5 times its quota
LeaderWithinBand ==
    200 * Count(last.pre, Leader.p)
        <= 3 * product_quotas(Leader.p, 10) * Len(last.pre)

C26_InstanceIsolation ==
    last.status # "none" =>
        \A g \in {<<>>, last.pre} :
            apply_production_rules_and_select(last.b, LastRow, last.pre, g).product
                = last.product

\* C27: for a non-empty benefit map the call returns from the forced-rule
\* stage, from the tie check or with the weighted-score maximum, whatever
\* the history is; the quota-fallback loops behind the weighted-score
\* selection, and everything after them, never run.
C27_FallbackNeverRuns ==
    (last.status # "none" /\ Len(last.b) > 0)
        => /\ last.status = "ok"
           /\ last.path \in {"rare", "mandatory", "tie", "weighted"}

\* the call the fallback loops were written for, every candidate over its
\* quota after 20 decisions or more, returns with the weighted maximum
C27_Witness ==
    /\ last.status = "ok"
    /\ last.path = "weighted"
    /\ Len(last.pre) >= 20
    /\ AllOverQuota

\* the last call was given the map the benefit model computes for its client
ComputedMap ==
    /\ last.status # "none"
    /\ last.b = calculate_all_benefits_tz_compliant(LastRow)

\* C28: when the map passed to apply_production_rules_and_select is the one
\* calculate_all_benefits_tz_compliant computes for the same client, the two
\* forced rules for rare products never fire: the gold benefit never exceeds
\* 50 000 and the investments benefit never exceeds 60 000.
C28_RareRulesNeverFire ==
    ComputedMap => /\ last.path # "rare"
                   /\ BenefitOf(last.b, "Gold") <= 50000
                   /\ BenefitOf(last.b, "Investments") <= 60000

\* everything else the gold rule asks for holds: 20 decisions or more, no
\* gold among them, a balance above 3 000 000
C28_Witness ==
    /\ ComputedMap
    /\ last.status = "ok"
    /\ Len(last.pre) >= 20
    /\ ~InHistory(last.pre, "Gold")
    /\ Feat(LastRow, "avg_monthly_balance_KZT") > 3000000

\* C29: at every point of the batch loop of the first main() of the process
\* the engine's recommendation history has as many entries as there are
\* result rows, and the i-th row's product is the i-th history entry.
C29_HistoryMatchesRows ==
    (runs = 1 /\ pc = "loop") =>
        /\ Len(history["production_engine"]) = Len(results)
        /\ \A i \in 1..Len(results) :
               results[i].product = history["production_engine"][i]

\* the ultra engine's last selection did not return through the critical
\* rules (lines 244-247) and had more than 5 decisions on record
UltraQuotaCall ==
    /\ ultra_last.status = "selected"
    /\ Len(ultra_last.b) > 0
    /\ Len(ultra_last.pre) > 5
    /\ LET mandatory == check_critical_rules(Row(ultra_last.c))
       IN  ~(/\ mandatory # "None"
             /\ QLess(<<1, 10>>, ScoreOf(ultra_last.b, mandatory)))

\* the running share of p among the decisions recorded before the call is
\* below the quota of 20%
UnderQuota(p) == 5 * Count(ultra_last.pre, p) < Len(ultra_last.pre)

UltraReturned == ultra_history[Len(ultra_history)]

\* C30: in apply_ultra_smart_selection, with no critical rule firing and more
\* than 5 decisions recorded, a product whose share has reached its 20% quota
\* is returned only if no other product with benefit above 0.1 has a share
\* below its quota; otherwise the returned product has the highest benefit
\* among the products whose share is below their quota; and the returned
\* product is appended to the history exactly once.
C30_QuotaSelection ==
    UltraQuotaCall =>
        /\ Len(ultra_history) = Len(ultra_last.pre) + 1
        /\ ultra_history = Append(ultra_last.pre, UltraReturned)
        /\ \E i \in 1..Len(ultra_last.b) : ultra_last.b[i].p = UltraReturned
        /\ ~UnderQuota(UltraReturned) =>
               \A i \in 1..Len(ultra_last.b) :
                   (/\ ultra_last.b[i].p # UltraReturned
                    /\ QLess(<<1, 10>>, ultra_last.b[i].s))
                   => ~UnderQuota(ultra_last.b[i].p)
        /\ UnderQuota(UltraReturned) =>
               \A i \in 1..Len(ultra_last.b) :
                   UnderQuota(ultra_last.b[i].p)
                   => ~QLess(ScoreOf(ultra_last.b, UltraReturned),
                             ultra_last.b[i].s)

\* the best-scored product had reached its quota and a product of lower
\* score was returned in its place
C30_Witness ==
    /\ UltraQuotaCall
    /\ Len(ultra_history) = Len(ultra_last.pre) + 1
    /\ UnderQuota(UltraReturned)
    /\ \E i \in 1..Len(ultra_last.b) :
           /\ ~UnderQuota(ultra_last.b[i].p)
           /\ QLess(ScoreOf(ultra_last.b, UltraReturned), ultra_last.b[i].s)
====
